---- MODULE Spec2Model ----
(***************************************************************************)
(* Model of src/main.py: the Kivy widget EquationSolver (two equation-type *)
(* checkboxes, a text input, a solve and a clear button, a result label)  *)
(* and its handlers on_checkbox_active, clear_fields, format_solution and *)
(* solve.  The SymPy functions the handlers call (parse_expr, degree,     *)
(* solve, N) are modelled by what they compute on polynomials in x with   *)
(* integer coefficients.                                                   *)
(*                                                                         *)
(* A text is a sequence of chunks: whitespace, the '=' sign, a malformed  *)
(* piece of syntax, or a signed term c*x^d.  Message strings of the       *)
(* source are given in English.                                            *)
(***************************************************************************)
EXTENDS Integers, Sequences, FiniteSets

VARIABLES
    linear_check_active,     \* self.linear_check.active
    quadratic_check_active,  \* self.quadratic_check.active
    equation_input_text,     \* self.equation_input.text
    result_label_text,       \* self.result_label.text
    uncaught,                \* exception that left a handler uncaught ("none" if none)
    N_raises,                \* the kinds of value on which the engine's sp.N raises
    calls,                   \* engine functions called by the latest run of solve's body
    fresh,                   \* result_label_text was written by solve for the current text and selection
    probe                    \* one earlier evaluation kept for comparison: its text, type and
                             \* output, and whether solve has since run on another text or type

vars == <<linear_check_active, quadratic_check_active, equation_input_text,
          result_label_text, uncaught, N_raises, calls, fresh, probe>>

\* ------------------------------------------------------------------ bounds

\* Largest absolute value of a coefficient in the generated inputs.
MaxCoef == 3

\* Highest power of x in a term of an input.
MaxDegree == 3

\* ------------------------------------------------------------------ texts

WS == [tok |-> "ws", c |-> 0, d |-> 0]
EQ == [tok |-> "=", c |-> 0, d |-> 0]
BAD == [tok |-> "bad", c |-> 0, d |-> 0]
Term(c, d) == [tok |-> "term", c |-> c, d |-> d]

Contains(s, ch) == \E i \in 1..Len(s) : s[i] = ch

RECURSIVE lstrip(_)
lstrip(s) == IF s # <<>> /\ Head(s) = WS THEN lstrip(Tail(s)) ELSE s

RECURSIVE rstrip(_)
rstrip(s) ==
    IF s # <<>> /\ s[Len(s)] = WS THEN rstrip(SubSeq(s, 1, Len(s) - 1)) ELSE s

\* str.strip()
strip(s) == rstrip(lstrip(s))

\* str.split("=", 1) of a text that contains "=": the parts before and after
\* the first "=".
split_eq(s) ==
    LET i == CHOOSE k \in 1..Len(s) : s[k] = EQ /\ \A j \in 1..(k - 1) : s[j] # EQ
    IN  <<SubSeq(s, 1, i - 1), SubSeq(s, i + 1, Len(s))>>

\* ------------------------------------------------------------ the engine

Degrees == 0..MaxDegree

ZeroPoly == [d \in Degrees |-> 0]

Returned(v) == [raised |-> FALSE, exc |-> "", val |-> v]
Raised(e) == [raised |-> TRUE, exc |-> e, val |-> <<>>]

RECURSIVE sum_terms(_)
sum_terms(s) ==
    IF s = <<>> THEN ZeroPoly
    ELSE LET rest == sum_terms(Tail(s))
         IN  IF Head(s).tok = "term"
             THEN [rest EXCEPT ![Head(s).d] = @ + Head(s).c]
             ELSE rest

\* parse_expr(side, transformations=transformations): the sum of the terms of
\* the side; SyntaxError on a side that is empty or whitespace only, holds
\* malformed syntax or holds a further "=".
parse_expr(s) ==
    IF \/ \A i \in 1..Len(s) : s[i] = WS
       \/ Contains(s, BAD)
       \/ Contains(s, EQ)
    THEN Raised("SyntaxError")
    ELSE Returned(sum_terms(s))

\* the two sides added instead of subtracted
Sub_added(p, q) == [d \in Degrees |-> p[d] + q[d]]

\* expr = lhs - rhs
Sub(p, q) == [d \in Degrees |-> p[d] - q[d]]

\* sp.degree(expr, x): the highest power with a non-zero coefficient, 0 for a
\* non-zero number and -oo for 0; -oo, below every integer, is written -1.
degree(p) ==
    IF p = ZeroPoly THEN -1
    ELSE CHOOSE d \in Degrees : p[d] # 0 /\ \A e \in Degrees : e > d => p[e] = 0

Abs(n) == IF n < 0 THEN -n ELSE n

RECURSIVE Gcd(_, _)
Gcd(a, b) == IF b = 0 THEN Abs(a) ELSE Gcd(Abs(b), Abs(a) % Abs(b))

\* floor of the square root of n >= 0
Isqrt(n) == CHOOSE r \in 0..n : r * r <= n /\ (r + 1) * (r + 1) > n

\* An exact value (p + s*sqrt(rad)) / q with q > 0: a rational when s = 0
\* (then rad = 0 and p/q is in lowest terms), a real surd when rad > 0 and a
\* complex number when rad < 0.
Rational(p, q) ==
    LET g == Gcd(p, q)
        sg == IF q < 0 THEN -1 ELSE 1
    IN  [p |-> (sg * p) \div g, s |-> 0, rad |-> 0, q |-> (sg * q) \div g]

Surd(p, s, rad, q) == [p |-> p, s |-> s, rad |-> rad, q |-> q]

Kind(v) ==
    IF v.s = 0 THEN "Rational" ELSE IF v.rad > 0 THEN "Surd" ELSE "Complex"

Kinds == {"Rational", "Surd", "Complex"}

\* sp.solve(expr, x) for an expression of degree at most 2: no solution for a
\* number (0 included), the root of a linear expression, and the roots of a
\* quadratic by its discriminant: one root when it is zero, else the two roots
\* (P - sqrt(D))/Q and (P + sqrt(D))/Q in this order.
sp_solve(p) ==
    LET deg == degree(p)
    IN  CASE deg < 1 -> <<>>
          [] deg = 1 -> <<Rational(-p[0], p[1])>>
          [] deg = 2 ->
                LET a == p[2]
                    b == p[1]
                    D == b * b - 4 * a * p[0]
                    P == IF a > 0 THEN -b ELSE b
                    Q == 2 * Abs(a)
                    r == Isqrt(Abs(D))
                IN  IF D = 0 THEN <<Rational(P, Q)>>
                    ELSE IF D > 0 /\ r * r = D
                    THEN <<Rational(P - r, Q), Rational(P + r, Q)>>
                    ELSE <<Surd(P, -1, D, Q), Surd(P, 1, D, Q)>>

RECURSIVE Pow10(_)
Pow10(k) == IF k = 0 THEN 1 ELSE 10 * Pow10(k - 1)

\* n / d rounded to the nearest integer, ties to even (n >= 0, d > 0)
RoundDiv(n, d) ==
    LET f == n \div d
        r2 == 2 * (n % d)
    IN  IF r2 > d \/ (r2 = d /\ f % 2 = 1) THEN f + 1 ELSE f

\* The decimal with `digits` significant digits nearest to p/q # 0:
\* sign * mant * 10^exp, mant having exactly `digits` digits.
Decimal(p, q, digits) ==
    LET n == Abs(p)
        lo == Pow10(digits - 1)
        \* scale: the k with lo <= n * 10^k / q < 10 * lo (values from 1/lo up)
        k == CHOOSE e \in (1 - digits)..(2 * digits) :
                 IF e >= 0
                 THEN n * Pow10(e) >= lo * q /\ n * Pow10(e) < 10 * lo * q
                 ELSE n >= lo * q * Pow10(-e) /\ n < 10 * lo * q * Pow10(-e)
        m == IF k >= 0 THEN RoundDiv(n * Pow10(k), q) ELSE RoundDiv(n, q * Pow10(-k))
    IN  IF m = 10 * lo
        THEN [sign |-> IF p < 0 THEN -1 ELSE 1, mant |-> lo, exp |-> 1 - k]
        ELSE [sign |-> IF p < 0 THEN -1 ELSE 1, mant |-> m, exp |-> -k]

\* str(solution): the exact value as sympy prints it
str_exact(v) == [form |-> "exact", value |-> v]

\* str(sp.N(solution, n)) of a value the reduction accepts: "0" for zero, the
\* decimal with n significant digits for any other rational, and the n-digit
\* approximation (kept by the value it approximates) for a surd or a complex
\* number.
str_N(v, n) ==
    IF v.s = 0
    THEN IF v.p = 0 THEN [form |-> "integer", value |-> 0]
         ELSE [form |-> "float", value |-> Decimal(v.p, v.q, n)]
    ELSE [form |-> "float", value |-> [approx |-> v, digits |-> n]]

\* sp.N(solution, n=...): raises on the kinds of value in `raising`
N(v, n, raising) ==
    IF Kind(v) \in raising THEN Raised("evalf") ELSE Returned(str_N(v, n))

\* ------------------------------------------------------- the widget's texts

\* Label(text=...) of the result label, lines 99-100
Placeholder == [head |-> "placeholder", msg |-> "", lines |-> <<>>]

\* f"Error: {str(e)}", line 195
ErrorText(e) == [head |-> "Error", msg |-> e, lines |-> <<>>]

\* line 177
NoSolutionsText == [head |-> "no solutions", msg |-> "", lines |-> <<>>]

Line(label, value) == [label |-> label, value |-> value]

\* line 189
LinearText(x) ==
    [head |-> "Solution of the equation:", msg |-> "", lines |-> <<Line("x", x)>>]

\* line 183
RootsText(x1, x2) ==
    [head |-> "Roots of the equation:", msg |-> "",
     lines |-> <<Line("x1", x1), Line("x2", x2)>>]

\* line 186
MultipleRootText(x) ==
    [head |-> "Root of the equation (multiple):", msg |-> "",
     lines |-> <<Line("x", x)>>]

\* number of significant digits asked of sp.N
n_digits == 4

\* ------------------------------------------------------------ the handlers

\* format_solution without its except clause: the exception of sp.N leaves it
format_solution_no_except(solution, raising) ==
    LET numeric_value == N(solution, n_digits, raising)
    IN  IF numeric_value.raised THEN Raised(numeric_value.exc)
        ELSE Returned(numeric_value.val)

\* EquationSolver.format_solution
format_solution(solution, raising) ==
    LET numeric_value == N(solution, n_digits, raising)
    IN  IF numeric_value.raised THEN Returned(str_exact(solution))
        ELSE Returned(numeric_value.val)

\* What one run of solve's body leaves: the label's text and the engine
\* functions it called, in order.
Outcome(text, log) == [text |-> text, log |-> log]

\* an except clause that leaves an error already shown in place
Caught_keep_shown(e, log) ==
    Outcome(IF result_label_text.head = "Error" THEN result_label_text
            ELSE ErrorText(e), log)

\* the except clause of solve, line 193-195
Caught(e, log) == Outcome(ErrorText(e), log)

\* lines 176-189 with the two-root branch taken for any quadratic
format_result_always_two(equation_type, solutions, raising, log) ==
    IF solutions = <<>> THEN Outcome(NoSolutionsText, log)
    ELSE LET x1_formatted == format_solution(solutions[1], raising)
             x2_formatted == format_solution(solutions[Len(solutions)], raising)
         IN  Outcome(IF equation_type = "quadratic"
                     THEN RootsText(x1_formatted.val, x2_formatted.val)
                     ELSE LinearText(x1_formatted.val),
                     log \o <<"N">>)

\* lines 176-189 of solve: the message for the solutions found
format_result(equation_type, solutions, raising, log) ==
    IF solutions = <<>> THEN Outcome(NoSolutionsText, log)
    ELSE IF equation_type = "quadratic" /\ Len(solutions) = 2
    THEN LET x1_formatted == format_solution(solutions[1], raising)
             x2_formatted == format_solution(solutions[2], raising)
         IN  IF x1_formatted.raised THEN Caught(x1_formatted.exc, log \o <<"N">>)
             ELSE IF x2_formatted.raised
             THEN Caught(x2_formatted.exc, log \o <<"N", "N">>)
             ELSE Outcome(RootsText(x1_formatted.val, x2_formatted.val),
                          log \o <<"N", "N">>)
    ELSE LET x_formatted == format_solution(solutions[1], raising)
         IN  IF x_formatted.raised THEN Caught(x_formatted.exc, log \o <<"N">>)
             ELSE Outcome(IF equation_type = "quadratic"
                          THEN MultipleRootText(x_formatted.val)
                          ELSE LinearText(x_formatted.val),
                          log \o <<"N">>)

\* the degree check with the linear bound off by one
degree_check_off_by_one(equation_type, deg) ==
    IF equation_type = "linear" /\ deg > 2
    THEN "The equation is not linear (degree > 1)"
    ELSE IF equation_type = "quadratic" /\ deg # 2
    THEN "The equation is not quadratic (the degree must be 2)"
    ELSE ""

\* lines 165-170 of solve: the ValueError of the degree check, "" if none
degree_check(equation_type, deg) ==
    IF equation_type = "linear" /\ deg > 1
    THEN "The equation is not linear (degree > 1)"
    ELSE IF equation_type = "quadratic" /\ deg # 2
    THEN "The equation is not quadratic (the degree must be 2)"
    ELSE ""

\* the input check with its two tests in the other order
input_check_swapped(eq_text) ==
    IF ~Contains(eq_text, EQ) THEN "The equation must contain the '=' sign"
    ELSE IF eq_text = <<>> THEN "Enter an equation"
    ELSE ""

\* lines 147-151 of solve: the ValueError of the input check, "" if none
input_check(eq_text) ==
    IF eq_text = <<>> THEN "Enter an equation"
    ELSE IF ~Contains(eq_text, EQ) THEN "The equation must contain the '=' sign"
    ELSE ""

\* The body of EquationSolver.solve, lines 142-195.
solve_body(input, linear_active, raising) ==
    LET equation_type == IF linear_active THEN "linear" ELSE "quadratic"
        eq_text == strip(input)
    IN  IF input_check(eq_text) # "" THEN Caught(input_check(eq_text), <<>>)
        ELSE
        LET parts == split_eq(eq_text)
            lhs == parse_expr(parts[1])
        IN  IF lhs.raised THEN Caught(lhs.exc, <<"parse_expr">>)
            ELSE
            LET rhs == parse_expr(parts[2])
            IN  IF rhs.raised THEN Caught(rhs.exc, <<"parse_expr", "parse_expr">>)
                ELSE
                LET expr == Sub(lhs.val, rhs.val)
                    deg == degree(expr)
                    log == <<"parse_expr", "parse_expr", "degree">>
                IN  IF degree_check(equation_type, deg) # ""
                    THEN Caught(degree_check(equation_type, deg), log)
                    ELSE format_result(equation_type, sp_solve(expr), raising,
                                       log \o <<"solve">>)

\* clear_fields that empties the label instead of restoring the placeholder
clear_fields_empty_label ==
    [input |-> <<>>, label |-> [head |-> "", msg |-> "", lines |-> <<>>]]

\* EquationSolver.clear_fields: the new input text and label text
clear_fields == [input |-> <<>>, label |-> Placeholder]

\* EquationSolver.on_checkbox_active(checkbox, value), run after `checkbox`
\* ("linear" or "quadratic") took the value `value`: the two checkboxes' new
\* values <<linear, quadratic>>.
on_checkbox_active(checkbox, value, linear, quadratic) ==
    IF value
    THEN IF checkbox = "linear" THEN <<linear, FALSE>> ELSE <<FALSE, quadratic>>
    ELSE <<linear, quadratic>>

\* positional parameters after self that the handlers declare
solve_params == 0
clear_fields_params == 1

\* positional arguments an on_press event calls its bound handler with: the
\* button instance
on_press_args == 1

\* ------------------------------------------------------------------ inputs

Coefs == (-MaxCoef)..MaxCoef

Pad(t) == <<WS>> \o t \o <<WS>>

\* "a*x + b = c"
LinearForm(a, b, c) == <<Term(a, 1), Term(b, 0), EQ, Term(c, 0)>>

\* "a*x^2 + b*x + c = 0"
QuadraticForm(a, b, c) == <<Term(a, 2), Term(b, 1), Term(c, 0), EQ, Term(0, 0)>>

\* "x + b = x + c"
BothSidesForm(b, c) == <<Term(1, 1), Term(b, 0), EQ, Term(1, 1), Term(c, 0)>>

\* "x^d + c = 0" for the powers above 2
HigherForm(d, c) == <<Term(1, d), Term(c, 0), EQ, Term(0, 0)>>

BlankTexts == {<<>>, <<WS>>, <<WS, WS>>}

\* "x + 1" and " x + 1 "
NoEqualsTexts == {<<Term(1, 1), Term(1, 0)>>, Pad(<<Term(1, 1), Term(1, 0)>>)}

\* "x + */ = 1", "x =", "= 1", "x = ", "x = 1 = 2", " = "
MalformedTexts ==
    {<<Term(1, 1), BAD, EQ, Term(1, 0)>>, <<Term(1, 1), EQ>>, <<EQ, Term(1, 0)>>,
     <<Term(1, 1), EQ, WS, BAD>>, <<Term(1, 1), EQ, Term(1, 0), EQ, Term(2, 0)>>,
     <<WS, EQ, WS>>}

\* The texts the evaluator is checked on.
Inputs ==
    BlankTexts \cup NoEqualsTexts \cup MalformedTexts
    \cup {LinearForm(a, b, c) : a \in Coefs, b \in Coefs, c \in Coefs}
    \cup {Pad(LinearForm(a, 1, 0)) : a \in Coefs}
    \cup {QuadraticForm(a, b, c) : a \in Coefs, b \in Coefs, c \in Coefs}
    \cup {BothSidesForm(b, c) : b \in Coefs, c \in Coefs}
    \cup {HigherForm(d, c) : d \in 3..MaxDegree, c \in Coefs}

\* The texts typed into the input field: " ", "3*x + 2 = 0", "x**2 - 4 = 0",
\* "x**2 - 4*x + 4 = 0", "2x = 0", "x + 1", "x + 1 = x + 2", "x = x",
\* "x**2 + 1 = 0", "x + */ = 1"
Typed ==
    {<<WS>>, LinearForm(3, 2, 0), QuadraticForm(1, 0, -4), QuadraticForm(1, -4, 4),
     <<Term(2, 1), EQ, Term(0, 0)>>, <<Term(1, 1), Term(1, 0)>>,
     BothSidesForm(1, 2), <<Term(1, 1), EQ, Term(1, 1)>>,
     QuadraticForm(1, 0, 1),
     <<Term(1, 1), BAD, EQ, Term(1, 0)>>}

\* ----------------------------------------------------------------- actions

NoProbe ==
    [set |-> FALSE, again |-> FALSE, text |-> <<>>, linear |-> TRUE,
     out |-> Placeholder]

\* One run of solve's body on the widget's state.
run_solve ==
    LET out == solve_body(equation_input_text, linear_check_active, N_raises)
    IN  /\ result_label_text' = out.text
        /\ calls' = out.log
        /\ fresh' = TRUE
        /\ UNCHANGED <<linear_check_active, quadratic_check_active,
                       equation_input_text, uncaught, N_raises>>

\* One run of clear_fields on the widget's state.
run_clear_fields ==
    /\ equation_input_text' = clear_fields.input
    /\ result_label_text' = clear_fields.label
    /\ fresh' = FALSE
    /\ UNCHANGED <<linear_check_active, quadratic_check_active, uncaught,
                   N_raises, calls, probe>>

\* A call that passes the wrong number of positional arguments raises
\* TypeError before the handler's body runs; nothing catches it.
type_error ==
    /\ uncaught' = "TypeError"
    /\ UNCHANGED <<linear_check_active, quadratic_check_active,
                   equation_input_text, result_label_text, N_raises, calls,
                   fresh, probe>>

\* EquationSolver.solve() called as it is declared.
solve ==
    /\ uncaught = "none"
    /\ run_solve
    /\ \/ probe' = [probe EXCEPT !.again =
                         \/ @
                         \/ /\ probe.set
                            /\ <<probe.text, probe.linear>> #
                                   <<equation_input_text, linear_check_active>>]
       \/ /\ ~probe.set
          /\ probe' = [set |-> TRUE, again |-> FALSE, text |-> equation_input_text,
                       linear |-> linear_check_active, out |-> result_label_text']

\* on_press of solve_button: line 90 binds self.solve.
press_solve_button ==
    /\ uncaught = "none"
    /\ IF on_press_args = solve_params
       THEN run_solve /\ probe' = probe
       ELSE type_error

\* on_press of clear_button: line 95 binds self.clear_fields.
press_clear_button ==
    /\ uncaught = "none"
    /\ IF on_press_args = clear_fields_params THEN run_clear_fields ELSE type_error

\* The user edits the input field.
edit_text ==
    /\ uncaught = "none"
    /\ \E t \in (Typed \cup {<<>>}) \ {equation_input_text} :
          equation_input_text' = t
    /\ fresh' = FALSE
    /\ UNCHANGED <<linear_check_active, quadratic_check_active,
                   result_label_text, uncaught, N_raises, calls, probe>>

\* The user touches a checkbox: its `active` flips and the bound
\* on_checkbox_active runs with the new value (lines 63, 71).
touch_checkbox ==
    /\ uncaught = "none"
    /\ \E checkbox \in {"linear", "quadratic"} :
          LET value == IF checkbox = "linear" THEN ~linear_check_active
                       ELSE ~quadratic_check_active
              linear == IF checkbox = "linear" THEN value ELSE linear_check_active
              quadratic ==
                  IF checkbox = "quadratic" THEN value ELSE quadratic_check_active
              after == on_checkbox_active(checkbox, value, linear, quadratic)
          IN  /\ linear_check_active' = after[1]
              /\ quadratic_check_active' = after[2]
    /\ fresh' = FALSE
    /\ UNCHANGED <<equation_input_text, result_label_text, uncaught, N_raises,
                   calls, probe>>

\* ---------------------------------------------------------- specifications

\* EquationSolver.__init__: Linear checked, the input empty, the placeholder shown.
Init ==
    /\ linear_check_active = TRUE
    /\ quadratic_check_active = FALSE
    /\ equation_input_text = <<>>
    /\ result_label_text = Placeholder
    /\ uncaught = "none"
    /\ N_raises \in SUBSET Kinds
    /\ calls = <<>>
    /\ fresh = FALSE
    /\ probe = NoProbe

Next ==
    \/ solve
    \/ press_solve_button
    \/ press_clear_button
    \/ edit_text
    \/ touch_checkbox

\* The application: every event of the widget.
Spec == Init /\ [][Next]_vars

\* The states in which solve finds the widget: any input of Inputs typed, and
\* any selection the checkboxes reach.
InitEval ==
    /\ linear_check_active \in BOOLEAN
    /\ quadratic_check_active \in BOOLEAN
    /\ ~(linear_check_active /\ quadratic_check_active)
    /\ equation_input_text \in Inputs
    /\ result_label_text = Placeholder
    /\ uncaught = "none"
    /\ N_raises \in SUBSET Kinds
    /\ calls = <<>>
    /\ fresh = FALSE
    /\ probe = NoProbe

NextEval == solve

\* The evaluator on its own: solve over the inputs.
SpecEval == InitEval /\ [][NextEval]_vars

\* ------------------------------------------------------------------ claims

\* The type solve reads from the checkboxes (line 144).
TypeRead == IF linear_check_active THEN "linear" ELSE "quadratic"

IsError(t) == t.head = "Error"

IsSolutionText(t) ==
    t.head \in {"no solutions", "Solution of the equation:",
                "Roots of the equation:", "Root of the equation (multiple):"}

TypeMismatchMessages ==
    {"The equation is not linear (degree > 1)",
     "The equation is not quadratic (the degree must be 2)"}

\* The text is blank once trimmed; the text holds an "=".
IsBlank(t) == \A i \in 1..Len(t) : t[i] = WS
HasEquals(t) == \E i \in 1..Len(t) : t[i] = EQ

\* The latest run of solve's body reached the degree computation, so both
\* sides parsed; the expression it normalized and its degree.
Normalized == Len(calls) >= 3
ExprNow ==
    LET parts == split_eq(strip(equation_input_text))
    IN  Sub(parse_expr(parts[1]).val, parse_expr(parts[2]).val)
DegreeNow == degree(ExprNow)

\* C1: every evaluation, the one started by pressing the solve button
\* included, ends with the label showing a solution, no-solutions or error
\* message, and no exception leaves the evaluator uncaught.
C1_NoExceptionEscapes ==
    /\ uncaught = "none"
    /\ fresh => (IsError(result_label_text) \/ IsSolutionText(result_label_text))

\* C2: once the expression is normalized, the evaluation ends in a
\* type-mismatch error exactly when the type is Linear and the degree exceeds
\* 1 or the type is Quadratic and the degree is not 2; on a mismatch the
\* solver is not called and no root is shown.
C2_TypeMismatch ==
    (fresh /\ Normalized) =>
        LET mismatch ==
                \/ TypeRead = "linear" /\ DegreeNow > 1
                \/ TypeRead = "quadratic" /\ DegreeNow # 2
        IN  /\ mismatch =>
                /\ IsError(result_label_text)
                /\ result_label_text.msg \in TypeMismatchMessages
                /\ result_label_text.lines = <<>>
                /\ calls = <<"parse_expr", "parse_expr", "degree">>
            /\ ~mismatch => result_label_text.msg \notin TypeMismatchMessages

\* C2's case: Quadratic declared for an expression of degree 1 ended in the
\* type-mismatch error.
C2_Witness ==
    /\ fresh /\ Normalized
    /\ TypeRead = "quadratic" /\ DegreeNow = 1
    /\ result_label_text.msg \in TypeMismatchMessages

\* C3: for any type, a text that is blank once trimmed yields the empty-input
\* error and a non-blank text without "=" yields the missing-equals error, the
\* blank test first, and neither run calls the engine.
C3_InputValidation ==
    fresh =>
        /\ IsBlank(equation_input_text) =>
              /\ result_label_text = ErrorText("Enter an equation")
              /\ calls = <<>>
        /\ (~IsBlank(equation_input_text) /\ ~HasEquals(equation_input_text)) =>
              /\ result_label_text = ErrorText("The equation must contain the '=' sign")
              /\ calls = <<>>

\* C3's case: a text of whitespace only was evaluated.
C3_Witness ==
    /\ fresh
    /\ equation_input_text = <<WS, WS>>
    /\ result_label_text = ErrorText("Enter an equation")

\* The shown value is num/den: exactly for an exact or integer rendering, and
\* to within half a unit of the last digit for a decimal rendering.
ShowsValue(shown, num, den) ==
    CASE shown.form = "integer" -> shown.value * den = num
      [] shown.form = "exact" ->
            shown.value.s = 0 /\ shown.value.p * den = num * shown.value.q
      [] shown.form = "float" ->
            LET f == shown.value
                k == -f.exp
            IN  /\ DOMAIN f = {"sign", "mant", "exp"}
                /\ k >= 0
                /\ 2 * Abs(f.sign * f.mant * den - num * Pow10(k)) <= Abs(den)

\* C4: for every a*x + b = c with a # 0 evaluated as Linear the label shows
\* the solution message with exactly one root, labelled x, whose value is
\* (c - b) / a (a decimal rendering to its 4 significant digits).
C4_LinearRoot ==
    \A a \in Coefs \ {0}, b \in Coefs, c \in Coefs :
        (fresh /\ linear_check_active
         /\ equation_input_text \in {LinearForm(a, b, c), Pad(LinearForm(a, b, c))}) =>
            /\ result_label_text.head = "Solution of the equation:"
            /\ Len(result_label_text.lines) = 1
            /\ result_label_text.lines[1].label = "x"
            /\ ShowsValue(result_label_text.lines[1].value, c - b, a)

\* C4's case: 3*x + 2 = 1 was evaluated as Linear and a decimal is shown.
C4_Witness ==
    /\ fresh /\ linear_check_active
    /\ equation_input_text = LinearForm(3, 2, 1)
    /\ result_label_text.head = "Solution of the equation:"
    /\ result_label_text.lines[1].value.form = "float"

C6_DegenerateOutcomes ==
    (fresh /\ Normalized /\ linear_check_active /\ DegreeNow < 1) =>
        /\ result_label_text.msg \notin TypeMismatchMessages
        /\ ExprNow # ZeroPoly => result_label_text = NoSolutionsText
        /\ ExprNow = ZeroPoly => result_label_text # NoSolutionsText

\* C7: exactly one of the two checkboxes is active in every state.
C7_ExactlyOneActive == linear_check_active # quadratic_check_active

\* C8: the clear action empties the input, restores the placeholder and
\* leaves the checkboxes as they are, from any state.
C8_Clear ==
    [][press_clear_button =>
          /\ equation_input_text' = <<>>
          /\ result_label_text' = Placeholder
          /\ linear_check_active' = linear_check_active
          /\ quadratic_check_active' = quadratic_check_active
          /\ uncaught' = "none"]_vars

\* C8's case: the label is back to the placeholder and the input empty after
\* an evaluation had run, with Quadratic selected.
C8_Witness ==
    /\ calls # <<>>
    /\ result_label_text = Placeholder
    /\ equation_input_text = <<>>
    /\ quadratic_check_active

C10_FormatterNeverRaises ==
    (fresh /\ Normalized /\ Len(calls) > 4) =>
        LET solutions == sp_solve(ExprNow)
        IN  /\ ~IsError(result_label_text)
            /\ Len(result_label_text.lines) = Len(solutions)
            /\ \A i \in 1..Len(solutions) :
                  result_label_text.lines[i].value =
                      IF Kind(solutions[i]) \in N_raises
                      THEN str_exact(solutions[i])
                      ELSE str_N(solutions[i], n_digits)

\* C10's case: sp.N raised on a root and the exact form is shown.
C10_Witness ==
    /\ fresh
    /\ result_label_text.head = "Roots of the equation:"
    /\ result_label_text.lines[1].value.form = "exact"
    /\ result_label_text.lines[2].value.form = "exact"
    /\ "Rational" \notin N_raises

====
